---- MODULE Spec2Model ----
(***************************************************************************)
(* litecache: a sharded in-process key/value cache with per-entry TTL.     *)
(*                                                                         *)
(* The model follows src/shard.go (the shard and its operations) and       *)
(* src/cache.go (the Cache that routes a key to a shard and keeps the      *)
(* atomic entry counter len).  A caller's operation is a sequence of      *)
(* steps: it takes the shard's lock (Acquire), the shard method looks the  *)
(* key up (Lookup), stores or deletes and releases the lock through the    *)
(* deferred unlock (Write), and then, outside the lock, the Cache method   *)
(* does its counter bookkeeping and returns (Finish).  The janitor         *)
(* goroutine of a shard sweeps on its ticker: lock, clean, unlock, then    *)
(* the callback that subtracts the evicted count from len.  The clock is   *)
(* the value of time.Now().UnixNano(), read by the step that uses it; Tick *)
(* advances it between steps.                                              *)
(***************************************************************************)
EXTENDS Integers, FiniteSets, Sequences, TLC

\* ------------------------------------------------------------------ bounds
MaxTime == 3        \* the clock runs over 1..MaxTime
MaxTtl == 1         \* ttl arguments of the *Ttl operations: 0..MaxTtl
MaxCount == 2       \* no call that can add to len starts once len is MaxCount
MaxShards == 3      \* shard counts handed to NewWithConfig: -1..MaxShards
MaxSweeps == 2      \* sweeps a janitor begins after the cancellation, at most

\* ------------------------------------------------------- program constants
NoExpiration == -1  \* cache.go: NoExpiration time.Duration = -1
NumShards == 2      \* cfg.shards of the modelled cache

Keys == {"a", "b"}
Values == {1, 2}
ZeroV == 0          \* zeroV[T](): the zero value of the value type
Procs == {"p1", "p2", "p3"}
Shards == 0 .. (NumShards - 1)
TtlArgs == 0 .. MaxTtl
None == "none"

ReadOps == {"Get"}
SetOps == {"Set", "SetTtl"}
NxOps == {"SetNx", "SetNxTtl"}
ExOps == {"SetEx", "SetExTtl"}
RemoveOps == {"Remove", "GetAndRemove"}
TransformOps == {"Transform"}
GetSetOps == {"GetAndSetEx", "GetAndSetExTtl"}
ValueOps == SetOps \cup NxOps \cup ExOps
WriteOps == ValueOps \cup RemoveOps
Ops == ReadOps \cup WriteOps
TtlOps == {"SetTtl", "SetNxTtl", "SetExTtl", "GetAndSetExTtl"}
\* the operations whose Cache method can add to len
AddingOps == SetOps \cup NxOps \cup {"SetExTtl"}

VARIABLES
    now,      \* time.Now().UnixNano()
    items,    \* items[s]: shard s's map, a function from its keys to item
    wlock,    \* wlock[s]: who holds shard s's mux for writing, or None
    rlock,    \* rlock[s]: the set of readers holding shard s's mux
    len,      \* Cache.len, the atomic counter Count() returns
    pc,       \* pc[p]: where caller p is in its Cache method
    call,     \* call[p]: the operation p is in and its arguments
    res,      \* res[p]: the shard method's locals and, at "post", its results
    jpc,      \* jpc[s]: shard s's janitor: "wait", "held", "cb", "stopped"
    evicted,  \* evicted[s]: cleanExpired's return value, pending in the callback
    ctxDone,  \* the construction context has been cancelled
    sweeps,   \* sweeps[s]: the sweeps shard s's janitor began since then (history)
    lastw     \* lastw[k]: the last write of k by a caller that succeeded, until
              \* a caller removes k (history)

vars == <<now, items, wlock, rlock, len, pc, call, res, jpc, evicted, ctxDone, sweeps, lastw>>

\* pc[p] is "idle" (between calls), "held" (inside the shard method, lock
\* taken), "write" (its lookup done, about to write or delete), "post" (shard
\* method returned, lock released, counter not yet updated) or "done" (a
\* caller that makes no further call); a caller constructing the cache is at
\* "new" (entering NewWithConfig) or "build" (entering newWithConfig).
NoCall == [op |-> None, key |-> None, value |-> 0, ttl |-> -1, fn |-> None]
NoRes == [ok |-> FALSE, value |-> 0, exp |-> 0, seen |-> <<>>]
NoWrite == [by |-> None, value |-> 0, until |-> 0]

\* ------------------------------------------------------------------ hasher
\* hasher.Hash(key): a fixed function of the key.
Hash(key) == IF key = "a" THEN 6 ELSE 9

\* a & b on unsigned integers
RECURSIVE BitAnd(_, _)
BitAnd(a, b) ==
    IF a = 0 \/ b = 0
    THEN 0
    ELSE (a % 2) * (b % 2) + 2 * BitAnd(a \div 2, b \div 2)

\* newWithConfig: shardMask: uint64(cfg.shards - 1)
shardMask == NumShards - 1

\* Cache.getShard: the index hk & c.shardMask of the key's shard
getShard(key) == BitAnd(Hash(key), shardMask)

\* ------------------------------------------------------------------- shard
item(value, exp) == [value |-> value, exp |-> exp]

\* the zero item a Go map read returns for a missing key
zeroItem == item(ZeroV, 0)

lookup(m, key) == IF key \in DOMAIN m THEN m[key] ELSE zeroItem

store(m, key, itm) == [x \in (DOMAIN m) \cup {key} |-> IF x = key THEN itm ELSE m[x]]

delete(m, key) == [x \in (DOMAIN m) \ {key} |-> m[x]]

\* A step of a shard method: the map after it, whether the method goes on to
\* its write ("write") or returns ("post"), and its locals or results.
step(m, to, ok, value, exp) == [m |-> m, to |-> to, ok |-> ok, value |-> value, exp |-> exp]

\* shard.get with its comparison of the clock and exp turned round.
get_flipped(m, key, t) ==
    LET itm == lookup(m, key)
        ok == key \in DOMAIN m
    IN  IF ok /\ itm.exp > 0 /\ t < itm.exp
        THEN step(m, "post", FALSE, itm.value, itm.exp)
        ELSE step(m, "post", ok, itm.value, itm.exp)

\* shard.get deleting the entry it finds expired.
get_deleting(m, key, t) ==
    LET itm == lookup(m, key)
        ok == key \in DOMAIN m
    IN  IF ok /\ itm.exp > 0 /\ t > itm.exp
        THEN step(delete(m, key), "post", FALSE, itm.value, itm.exp)
        ELSE step(m, "post", ok, itm.value, itm.exp)

\* shard.get: one read of the map and of the clock.
get(m, key, t) ==
    LET itm == lookup(m, key)
        ok == key \in DOMAIN m
    IN  IF ok /\ itm.exp > 0 /\ t > itm.exp
        THEN step(m, "post", FALSE, itm.value, itm.exp)
        ELSE step(m, "post", ok, itm.value, itm.exp)

\* exp as set, setNX and setEX compute it before they store
expiry(ttl, t) == IF ttl > 0 THEN t + ttl ELSE NoExpiration

\* shard.set's lookup reporting every key as new.
setExists_always(m, key, t) == step(m, "write", TRUE, ZeroV, 0)

\* shard.set, its lookup: added is whether the key is new.
setExists(m, key, t) == step(m, "write", key \notin DOMAIN m, ZeroV, 0)

\* shard.set, its store; it returns added.
setStore(m, key, value, ttl, added, t) ==
    step(store(m, key, item(value, expiry(ttl, t))), "post", added, ZeroV, 0)

\* The effector functions callers hand to Transform, by name.
effect(fn, v) ==
    CASE fn = "flip" -> 3 - v
      [] fn = "inc" -> v + 1
      [] fn = "dbl" -> 2 * v
      [] OTHER -> v

\* shard.transform, its lookup: return false if the key is missing or has
\* expired; itm is kept for the store.
transformCheck(m, key, t) ==
    IF key \notin DOMAIN m \/ (m[key].exp > 0 /\ m[key].exp < t)
    THEN step(m, "post", FALSE, ZeroV, 0)
    ELSE step(m, "write", TRUE, m[key].value, m[key].exp)

\* shard.transform's store giving the entry a fresh expiration, as set does.
transformStore_newExp(m, key, fn, itm, t) ==
    step(store(m, key, item(effect(fn, itm.value), expiry(1, t))), "post", TRUE, ZeroV, 0)

\* shard.transform, its store: the effector's result under itm's expiration.
transformStore(m, key, fn, itm, t) ==
    step(store(m, key, item(effect(fn, itm.value), itm.exp)), "post", TRUE, ZeroV, 0)

\* shard.setNX's lookup with the comparison of exp and the clock turned round.
setNXCheck_flipped(m, key, t) ==
    IF key \in DOMAIN m /\ (m[key].exp <= 0 \/ m[key].exp < t)
    THEN step(m, "post", FALSE, ZeroV, 0)
    ELSE step(m, "write", TRUE, ZeroV, 0)

\* shard.setNX's lookup taking an entry at the instant of its expiration for
\* live, as setEX's does.
setNXCheck_tieLive(m, key, t) ==
    IF key \in DOMAIN m /\ (m[key].exp <= 0 \/ m[key].exp >= t)
    THEN step(m, "post", FALSE, ZeroV, 0)
    ELSE step(m, "write", TRUE, ZeroV, 0)

\* shard.setNX, its lookup: return false if the key exists and has not expired.
setNXCheck(m, key, t) ==
    IF key \in DOMAIN m /\ (m[key].exp <= 0 \/ m[key].exp > t)
    THEN step(m, "post", FALSE, ZeroV, 0)
    ELSE step(m, "write", TRUE, ZeroV, 0)

\* shard.setNX, its store.
setNXStore(m, key, value, ttl, t) ==
    step(store(m, key, item(value, expiry(ttl, t))), "post", TRUE, ZeroV, 0)

\* shard.setEX, its lookup: return false if the key is missing or has expired.
setEXCheck(m, key, t) ==
    IF key \notin DOMAIN m \/ (m[key].exp > 0 /\ m[key].exp < t)
    THEN step(m, "post", FALSE, ZeroV, 0)
    ELSE step(m, "write", TRUE, ZeroV, 0)

\* shard.setEX's store keeping the expiration of the entry, as transform does.
setEXStore_keepExp(m, key, value, ttl, t) ==
    step(store(m, key, item(value, lookup(m, key).exp)), "post", TRUE, ZeroV, 0)

\* shard.setEX, its store.
setEXStore(m, key, value, ttl, t) ==
    step(store(m, key, item(value, expiry(ttl, t))), "post", TRUE, ZeroV, 0)

\* shard.getSetEX, its lookup: the liveness precondition of setIfPresent, an
\* entry at the instant of its expiration being expired; the old value is kept
\* for the return.
getSetEXCheck(m, key, t) ==
    IF key \notin DOMAIN m \/ (m[key].exp > 0 /\ m[key].exp <= t)
    THEN step(m, "post", FALSE, ZeroV, 0)
    ELSE step(m, "write", TRUE, m[key].value, m[key].exp)

\* shard.getSetEX, its store: overwrite value and expiration, return the
\* previous value.
getSetEXStore(m, key, value, ttl, itm, t) ==
    step(store(m, key, item(value, expiry(ttl, t))), "post", TRUE, itm.value, 0)

\* shard.remove, its lookup: itm, found := s.items[key].
removeFind(m, key, t) ==
    IF key \notin DOMAIN m
    THEN step(m, "post", FALSE, ZeroV, 0)
    ELSE step(m, "write", TRUE, m[key].value, m[key].exp)

\* shard.remove, from its read of the clock on; itm is the item it found.
removeDelete(m, key, itm, t) ==
    IF itm.exp > 0 /\ itm.exp > t
    THEN step(m, "post", FALSE, ZeroV, 0)
    ELSE step(delete(m, key), "post", TRUE, itm.value, 0)

\* A cleanExpired that finds nothing to delete.
sweepable_none(m, t) == {}

\* the keys shard.cleanExpired deletes when it reads the clock at t
sweepable(m, t) == {k \in DOMAIN m : m[k].exp > 0 /\ m[k].exp < t}

\* shard.cleanExpired: the map after the sweep and the number deleted
cleanExpired(m, t) ==
    LET gone == sweepable(m, t)
    IN  step([x \in (DOMAIN m) \ gone |-> m[x]], "cb", TRUE, Cardinality(gone), 0)

\* ------------------------------------------------------------------- cache
\* The first part of the shard method that Cache.<op> calls.
shardLookup(m, op, key, t) ==
    CASE op = "Get" -> get(m, key, t)
      [] op \in SetOps -> setExists(m, key, t)
      [] op \in NxOps -> setNXCheck(m, key, t)
      [] op \in ExOps -> setEXCheck(m, key, t)
      [] op \in RemoveOps -> removeFind(m, key, t)
      [] op \in TransformOps -> transformCheck(m, key, t)
      [] op \in GetSetOps -> getSetEXCheck(m, key, t)

\* The ttl Cache.<op> passes to the shard method.
ttlOf(op, ttl) == IF op \in TtlOps THEN ttl ELSE NoExpiration

\* The second part of the shard method; r holds the locals of the first.
shardWrite(m, op, key, value, ttl, fn, r, t) ==
    CASE op \in SetOps -> setStore(m, key, value, ttlOf(op, ttl), r.ok, t)
      [] op \in NxOps -> setNXStore(m, key, value, ttlOf(op, ttl), t)
      [] op \in ExOps -> setEXStore(m, key, value, ttlOf(op, ttl), t)
      [] op \in RemoveOps -> removeDelete(m, key, item(r.value, r.exp), t)
      [] op \in TransformOps -> transformStore(m, key, fn, item(r.value, r.exp), t)
      [] op \in GetSetOps ->
             getSetEXStore(m, key, value, ttlOf(op, ttl), item(r.value, r.exp), t)

\* What the Cache method adds to len once the shard method returned ok.
lenDelta(op, ok) ==
    CASE op \in SetOps -> IF ok THEN 1 ELSE 0
      [] op \in NxOps -> IF ok THEN 1 ELSE 0
      [] op = "SetEx" -> 0
      [] op = "SetExTtl" -> IF ok THEN 1 ELSE 0
      [] op \in RemoveOps -> IF ok THEN -1 ELSE 0
      [] OTHER -> 0

\* A return that hands back whatever the shard found, hit or miss.
retValue_raw(op, r) == r.value

\* The value the Cache method hands back to its caller.
retValue(op, r) ==
    CASE op = "Get" -> IF r.ok THEN r.value ELSE ZeroV
      [] op = "GetAndRemove" -> r.value
      [] op \in GetSetOps -> r.value
      [] OTHER -> ZeroV

\* -------------------------------------------------------------------- init
Init ==
    /\ now = 1
    /\ items = [s \in Shards |-> <<>>]
    /\ wlock = [s \in Shards |-> None]
    /\ rlock = [s \in Shards |-> {}]
    /\ len = 0
    /\ pc = [p \in Procs |-> "idle"]
    /\ call = [p \in Procs |-> NoCall]
    /\ res = [p \in Procs |-> NoRes]
    /\ jpc = [s \in Shards |-> "wait"]
    /\ evicted = [s \in Shards |-> 0]
    /\ ctxDone = FALSE
    /\ sweeps = [s \in Shards |-> 0]
    /\ lastw = [k \in Keys |-> NoWrite]

\* ----------------------------------------------------------------- actions
\* The clock advances.
Tick ==
    /\ now < MaxTime
    /\ now' = now + 1
    /\ UNCHANGED <<items, wlock, rlock, len, pc, call, res, jpc, evicted, ctxDone, sweeps, lastw>>

\* A lock that is taken without waiting for its holders.
lockTaken_noWait(s, who, reading) ==
    IF reading
    THEN /\ rlock' = [rlock EXCEPT ![s] = @ \cup {who}]
         /\ UNCHANGED wlock
    ELSE /\ wlock' = [wlock EXCEPT ![s] = who]
         /\ UNCHANGED rlock

\* A lock that every method takes shared, as get does.
lockTaken_shared(s, who, reading) ==
    /\ wlock[s] = None
    /\ rlock' = [rlock EXCEPT ![s] = @ \cup {who}]
    /\ UNCHANGED wlock

\* s.mux.RLock() for a reading method, s.mux.Lock() for the others, by `who`.
lockTaken(s, who, reading) ==
    /\ wlock[s] = None
    /\ IF reading
       THEN /\ rlock' = [rlock EXCEPT ![s] = @ \cup {who}]
            /\ UNCHANGED wlock
       ELSE /\ rlock[s] = {}
            /\ wlock' = [wlock EXCEPT ![s] = who]
            /\ UNCHANGED rlock

\* A method that returns without unlocking.
lockReleased_kept(s, who) == UNCHANGED <<wlock, rlock>>

\* the deferred s.mux.Unlock() or s.mux.RUnlock() of `who`
lockReleased(s, who) ==
    /\ wlock' = [wlock EXCEPT ![s] = IF @ = who THEN None ELSE @]
    /\ rlock' = [rlock EXCEPT ![s] = @ \ {who}]

\* Caller p enters Cache.<op>(key, ..): getShard, then the shard method takes
\* the lock.  The value and ttl arguments are first read by the method's store,
\* and are drawn there.
Acquire(p, op, key) ==
    /\ pc[p] = "idle"
    /\ op \in AddingOps => len < MaxCount
    /\ lockTaken(getShard(key), p, op \in ReadOps)
    /\ pc' = [pc EXCEPT ![p] = "held"]
    /\ call' = [call EXCEPT ![p] = [op |-> op, key |-> key, value |-> 0, ttl |-> -1,
                                    fn |-> None]]
    /\ res' = [res EXCEPT ![p] = NoRes]
    /\ UNCHANGED <<now, items, len, jpc, evicted, ctxDone, sweeps, lastw>>

\* The shard method's lookup under the lock; a method that returns from it
\* releases the lock.
Lookup(p) ==
    LET c == call[p]
        s == getShard(c.key)
        o == shardLookup(items[s], c.op, c.key, now)
    IN  /\ pc[p] = "held"
        /\ pc' = [pc EXCEPT ![p] = o.to]
        /\ res' = [res EXCEPT ![p] = [ok |-> o.ok, value |-> o.value, exp |-> o.exp,
                                      seen |-> <<>>]]
        /\ items' = [items EXCEPT ![s] = o.m]
        /\ IF o.to = "post"
           THEN lockReleased(s, p)
           ELSE UNCHANGED <<wlock, rlock>>
        /\ UNCHANGED <<now, len, call, jpc, evicted, ctxDone, sweeps, lastw>>

\* The family of a writing operation: its shard method.
family(op) ==
    CASE op \in SetOps -> "set"
      [] op \in NxOps -> "setNX"
      [] op \in ExOps -> "setEX"
      [] op \in TransformOps -> "transform"
      [] op \in GetSetOps -> "getSetEX"
      [] OTHER -> "remove"

\* The instant a write at t with this ttl asks the entry to expire at; 0 for
\* an entry that is not to expire.
until(ttl, t) == IF ttl > 0 THEN t + ttl ELSE 0

\* The history of writes after call c's store or delete returned ok at t.
noteWrite(lw, c, ok, t) ==
    IF c.op \in ValueOps \cup GetSetOps
    THEN [lw EXCEPT ![c.key] = [by |-> family(c.op), value |-> c.value,
                                until |-> until(ttlOf(c.op, c.ttl), t)]]
    ELSE IF c.op \in TransformOps
         THEN [lw EXCEPT ![c.key] = [by |-> family(c.op), value |-> effect(c.fn, @.value),
                                     until |-> @.until]]
         ELSE IF ok
              THEN [lw EXCEPT ![c.key] = NoWrite]
              ELSE lw

\* The shard method's store or delete, and the deferred unlock.  The effector
\* of Transform runs here, under the lock.
Write(p, value, ttl, fn) ==
    LET c == [call[p] EXCEPT !.value = value, !.ttl = ttl, !.fn = fn]
        s == getShard(c.key)
        o == shardWrite(items[s], c.op, c.key, value, ttl, fn, res[p], now)
    IN  /\ pc[p] = "write"
        /\ pc' = [pc EXCEPT ![p] = "post"]
        /\ items' = [items EXCEPT ![s] = o.m]
        /\ call' = [call EXCEPT ![p] = c]
        /\ res' = [res EXCEPT ![p] = [ok |-> o.ok, value |-> o.value, exp |-> o.exp,
                                      seen |-> <<>>]]
        /\ lockReleased(s, p)
        /\ lastw' = noteWrite(lastw, c, o.ok, now)
        /\ UNCHANGED <<now, len, jpc, evicted, ctxDone, sweeps>>

\* Back in the Cache method: c.len.Add and the return to the caller.  A caller
\* that goes on to further calls (last = FALSE) forgets this one.
Finish(p, last) ==
    /\ pc[p] = "post"
    /\ pc' = [pc EXCEPT ![p] = IF last THEN "done" ELSE "idle"]
    /\ len' = len + lenDelta(call[p].op, res[p].ok)
    /\ call' = IF last THEN call ELSE [call EXCEPT ![p] = NoCall]
    /\ res' = IF last THEN res ELSE [res EXCEPT ![p] = NoRes]
    /\ UNCHANGED <<now, items, wlock, rlock, jpc, evicted, ctxDone, sweeps, lastw>>

\* The janitor of shard s: its select takes <-tick.C and cleanExpired takes the
\* lock.  The select takes a tick that is ready whether or not ctx.Done() is
\* ready too.
SweepLock(s) ==
    /\ jpc[s] = "wait"
    /\ ctxDone => sweeps[s] < MaxSweeps
    /\ lockTaken(s, "janitor", FALSE)
    /\ jpc' = [jpc EXCEPT ![s] = "held"]
    /\ sweeps' = [sweeps EXCEPT ![s] = IF ctxDone THEN @ + 1 ELSE @]
    /\ UNCHANGED <<now, items, len, pc, call, res, evicted, ctxDone, lastw>>

\* cleanExpired scans the map under the lock and returns the number deleted.
SweepBody(s) ==
    LET o == cleanExpired(items[s], now) IN
    /\ jpc[s] = "held"
    /\ items' = [items EXCEPT ![s] = o.m]
    /\ evicted' = [evicted EXCEPT ![s] = o.value]
    /\ lockReleased(s, "janitor")
    /\ jpc' = [jpc EXCEPT ![s] = o.to]
    /\ UNCHANGED <<now, len, pc, call, res, ctxDone, sweeps, lastw>>

\* The callback newWithConfig gave the janitor: c.len.Add(-int64(evicted)).
SweepCallback(s) ==
    /\ jpc[s] = "cb"
    /\ len' = len - evicted[s]
    /\ evicted' = [evicted EXCEPT ![s] = 0]
    /\ jpc' = [jpc EXCEPT ![s] = "wait"]
    /\ UNCHANGED <<now, items, wlock, rlock, pc, call, res, ctxDone, sweeps, lastw>>

\* The owner of the construction context cancels it.
Cancel ==
    /\ ~ctxDone
    /\ ctxDone' = TRUE
    /\ UNCHANGED <<now, items, wlock, rlock, len, pc, call, res, jpc, evicted, sweeps, lastw>>

\* The janitor's select takes <-j.ctx.Done(): the goroutine returns.
SweepStop(s) ==
    /\ jpc[s] = "wait"
    /\ ctxDone
    /\ jpc' = [jpc EXCEPT ![s] = "stopped"]
    /\ UNCHANGED <<now, items, wlock, rlock, len, pc, call, res, evicted, ctxDone, sweeps, lastw>>

\* The effectors the caller of Spec hands to Transform: one that maps Values
\* onto Values.
Effectors == {"flip"}

\* The arguments a call of op may store.
CallArgs(op) ==
    [value : IF op \in ValueOps \cup GetSetOps THEN Values ELSE {ZeroV},
     ttl : IF op \in TtlOps THEN TtlArgs ELSE {NoExpiration},
     fn : IF op \in TransformOps THEN Effectors ELSE {None}]

\* The janitors, one goroutine per shard.
Janitor ==
    \/ \E s \in Shards : SweepLock(s)
    \/ \E s \in Shards : SweepBody(s)
    \/ \E s \in Shards : SweepCallback(s)

\* One caller issuing any sequence of calls, the janitors and the clock,
\* under a context that is not cancelled.
Next ==
    \/ Tick
    \/ \E op \in Ops, key \in Keys : Acquire("p1", op, key)
    \/ Lookup("p1")
    \/ \E a \in CallArgs(call["p1"].op) : Write("p1", a.value, a.ttl, a.fn)
    \/ Finish("p1", FALSE)
    \/ Janitor

Spec == Init /\ [][Next]_vars

\* One caller that sets, transforms, reads and removes, the janitors and the
\* clock.
TrOps == SetOps \cup TransformOps \cup ReadOps \cup {"Remove"}

NextTr ==
    \/ Tick
    \/ \E op \in TrOps, key \in Keys : Acquire("p1", op, key)
    \/ Lookup("p1")
    \/ \E a \in CallArgs(call["p1"].op) : Write("p1", a.value, a.ttl, a.fn)
    \/ Finish("p1", FALSE)
    \/ Janitor

SpecTr == Init /\ [][NextTr]_vars

\* shard.transform whose effector panics, with the store moved before the
\* call of the effector: the entry is left holding the zero value.
transformPanics_stored(m, key, itm) ==
    step(store(m, key, item(ZeroV, itm.exp)), "panicked", FALSE, ZeroV, 0)

\* shard.transform whose effector panics: effector(itm.value) is called before
\* s.items[key] is assigned, so the map is as it was found.
transformPanics(m, key, itm) == step(m, "panicked", FALSE, ZeroV, 0)

\* The effector of caller p's Transform panics.  The panic unwinds
\* shard.transform, running its deferred s.mux.Unlock(), and Cache.Transform,
\* which has no defer, and reaches the caller.
TransformPanics(p) ==
    LET s == getShard(call[p].key)
        o == transformPanics(items[s], call[p].key, item(res[p].value, res[p].exp))
    IN  /\ pc[p] = "write"
        /\ call[p].op \in TransformOps
        /\ pc' = [pc EXCEPT ![p] = o.to]
        /\ items' = [items EXCEPT ![s] = o.m]
        /\ res' = [res EXCEPT ![p] = NoRes]
        /\ lockReleased(s, p)
        /\ UNCHANGED <<now, len, call, jpc, evicted, ctxDone, sweeps, lastw>>

\* The caller recovers from the panic of its effector and goes on.
Recovers(p) ==
    /\ pc[p] = "panicked"
    /\ pc' = [pc EXCEPT ![p] = "idle"]
    /\ call' = [call EXCEPT ![p] = NoCall]
    /\ UNCHANGED <<now, items, wlock, rlock, len, res, jpc, evicted, ctxDone, sweeps, lastw>>

\* The caller of SpecTr with effectors that may panic, and a recover around
\* its Transform calls.
NextTrPanic ==
    \/ NextTr
    \/ TransformPanics("p1")
    \/ Recovers("p1")

SpecTrPanic == Init /\ [][NextTrPanic]_vars

\* One caller that sets, gets-and-sets, gets-and-removes and reads, the
\* janitors and the clock.
GsOps == SetOps \cup GetSetOps \cup ReadOps \cup {"GetAndRemove"}

NextGs ==
    \/ Tick
    \/ \E op \in GsOps, key \in Keys : Acquire("p1", op, key)
    \/ Lookup("p1")
    \/ \E a \in CallArgs(call["p1"].op) : Write("p1", a.value, a.ttl, a.fn)
    \/ Finish("p1", FALSE)
    \/ Janitor

SpecGs == Init /\ [][NextGs]_vars

\* Two callers, each making calls one after another on the same key, any of
\* Get, Set, SetTtl, SetNx, SetEx, Transform and Remove with any arguments,
\* against an empty cache; the janitor of the key's shard and the clock run as
\* usual (the other shards stay empty, their janitors have nothing to do).
LinKey == "a"

LinProcs == {"p1", "p2"}

LinOps == {"Get", "Set", "SetTtl", "SetNx", "SetEx", "Transform", "Remove"}

NextLin ==
    \/ Tick
    \/ \E p \in LinProcs, op \in LinOps : Acquire(p, op, LinKey)
    \/ \E p \in LinProcs : Lookup(p)
    \/ \E p \in LinProcs : \E a \in CallArgs(call[p].op) : Write(p, a.value, a.ttl, a.fn)
    \/ \E p \in LinProcs : Finish(p, FALSE)
    \/ SweepLock(getShard(LinKey))
    \/ SweepBody(getShard(LinKey))
    \/ SweepCallback(getShard(LinKey))

SpecLin == Init /\ [][NextLin]_vars

\* N callers, each making one SetNx call on the same key with a value of its
\* own, against an empty cache; the janitors and the clock run as usual.
NxKey == "a"

NxValue(p) == CASE p = "p1" -> 1 [] p = "p2" -> 2 [] OTHER -> 3

NextNx ==
    \/ Tick
    \/ \E p \in Procs : Acquire(p, "SetNx", NxKey)
    \/ \E p \in Procs : Lookup(p)
    \/ \E p \in Procs : Write(p, NxValue(p), NoExpiration, None)
    \/ \E p \in Procs : Finish(p, TRUE)
    \/ Janitor

SpecNx == Init /\ [][NextNx]_vars

\* N callers, each making one Transform call on the same key with an effector
\* of its own, against a cache that holds the key with value TrV0 and no TTL
\* (the state after Set(TrKey, TrV0)); the janitors and the clock run as usual.
TrKey == "a"

TrV0 == 1

TrFn(p) == CASE p = "p1" -> "inc" [] p = "p2" -> "dbl" [] OTHER -> "inc"

InitTrN ==
    /\ now = 1
    /\ items = [s \in Shards |->
                   IF s = getShard(TrKey) THEN (TrKey :> item(TrV0, NoExpiration)) ELSE <<>>]
    /\ wlock = [s \in Shards |-> None]
    /\ rlock = [s \in Shards |-> {}]
    /\ len = 1
    /\ pc = [p \in Procs |-> "idle"]
    /\ call = [p \in Procs |-> NoCall]
    /\ res = [p \in Procs |-> NoRes]
    /\ jpc = [s \in Shards |-> "wait"]
    /\ evicted = [s \in Shards |-> 0]
    /\ ctxDone = FALSE
    /\ sweeps = [s \in Shards |-> 0]
    /\ lastw = [k \in Keys |->
                   IF k = TrKey THEN [by |-> "set", value |-> TrV0, until |-> 0] ELSE NoWrite]

NextTrN ==
    \/ Tick
    \/ \E p \in Procs : Acquire(p, "Transform", TrKey)
    \/ \E p \in Procs : Lookup(p)
    \/ \E p \in Procs : Write(p, ZeroV, NoExpiration, TrFn(p))
    \/ \E p \in Procs : Finish(p, TRUE)
    \/ Janitor

SpecTrN == InitTrN /\ [][NextTrN]_vars

\* N callers, each making Set calls without TTL, one after another, on any
\* keys with any values, against an empty cache; the janitors and the clock
\* run as usual.
NextSet ==
    \/ Tick
    \/ \E p \in Procs, key \in Keys : Acquire(p, "Set", key)
    \/ \E p \in Procs : Lookup(p)
    \/ \E p \in Procs, v \in Values : Write(p, v, NoExpiration, None)
    \/ \E p \in Procs : Finish(p, FALSE)
    \/ Janitor

SpecSet == Init /\ [][NextSet]_vars

\* Spec with its scheduling: a caller inside a call runs on to its return, every
\* janitor's ticker keeps firing and its sweep runs to the end, and the clock
\* keeps advancing (up to MaxTime).  The caller is free to stop calling.
Fairness ==
    /\ WF_vars(Tick)
    /\ WF_vars(Lookup("p1"))
    /\ WF_vars(\E a \in CallArgs(call["p1"].op) : Write("p1", a.value, a.ttl, a.fn))
    /\ WF_vars(Finish("p1", FALSE))
    /\ \A s \in Shards :
           WF_vars(SweepLock(s)) /\ WF_vars(SweepBody(s)) /\ WF_vars(SweepCallback(s))

SpecLive == Spec /\ Fairness

\* Spec with a sweeper that is scheduled fairly: as Fairness, and a janitor
\* whose cleanExpired finds the shard lock free again and again takes it in
\* the end, however often callers take it in between (a sync.RWMutex hands the
\* lock to a waiter that has waited long enough).
FairSweeper ==
    /\ Fairness
    /\ \A s \in Shards : SF_vars(SweepLock(s))

\* One caller that sets with and without TTL and reads, again and again or
\* not at all, beside the fairly scheduled janitors and the clock.
ReclaimOps == SetOps \cup ReadOps

NextReclaim ==
    \/ Tick
    \/ \E op \in ReclaimOps, key \in Keys : Acquire("p1", op, key)
    \/ Lookup("p1")
    \/ \E a \in CallArgs(call["p1"].op) : Write("p1", a.value, a.ttl, a.fn)
    \/ Finish("p1", FALSE)
    \/ Janitor

SpecReclaim == Init /\ [][NextReclaim]_vars /\ FairSweeper

\* ------------------------------------------------- per-entry eviction callback
\* The cache whose janitors report every removed entry: runOn hands
\* cleanExpired the callback of newWithConfig, which subtracts 1 from len and
\* then calls cfg.onEvict(key, value).  Here evicted[s] is the sequence of
\* removed (key, value) pairs the callback has still to be called for, and
\* jpc[s] is also "evict": the callback has subtracted 1 and is about to call
\* onEvict.

\* the keys of the callers of this cache: both are routed to the same shard
EvKeys == {"b", "c"}

\* the ways to line up the elements of the finite set S
Orderings(S) == {q \in [1 .. Cardinality(S) -> S] : \A i, j \in DOMAIN q : q[i] = q[j] => i = j}

\* the keys a sweep that reads the clock at t removes from m, every live entry
\* included
removedBy_all(m, t) == DOMAIN m

\* the keys a sweep that reads the clock at t removes from m: those whose
\* expiration is set and not after t
removedBy(m, t) == {k \in DOMAIN m : m[k].exp > 0 /\ m[k].exp <= t}

\* a sweep that holds on to the shard's lock while the callbacks run
sweepUnlock_late(s) == UNCHANGED <<wlock, rlock>>

\* the sweep lets go of the shard's lock before any callback runs
sweepUnlock(s) == lockReleased(s, "janitor")

\* the callback's c.len.Add(-1) left out
afterIteration_skip(n) == n

\* the callback's c.len.Add(-1)
afterIteration(n) == n - 1

InitEv ==
    /\ now = 1
    /\ items = [s \in Shards |-> <<>>]
    /\ wlock = [s \in Shards |-> None]
    /\ rlock = [s \in Shards |-> {}]
    /\ len = 0
    /\ pc = [p \in Procs |-> "idle"]
    /\ call = [p \in Procs |-> NoCall]
    /\ res = [p \in Procs |-> NoRes]
    /\ jpc = [s \in Shards |-> "wait"]
    /\ evicted = [s \in Shards |-> <<>>]
    /\ ctxDone = FALSE
    /\ sweeps = [s \in Shards |-> 0]
    /\ lastw = [k \in EvKeys |-> NoWrite]

\* The sweep of shard s under the lock: the expired entries are deleted and
\* handed on, in the order the map was ranged over.
SweepBodyEv(s) ==
    LET gone == removedBy(items[s], now) IN
    /\ jpc[s] = "held"
    /\ items' = [items EXCEPT ![s] = [x \in (DOMAIN @) \ gone |-> @[x]]]
    /\ \E q \in Orderings({[key |-> k, value |-> items[s][k].value] : k \in gone}) :
           /\ evicted' = [evicted EXCEPT ![s] = q]
           /\ jpc' = [jpc EXCEPT ![s] = IF q = <<>> THEN "wait" ELSE "cb"]
    /\ sweepUnlock(s)
    /\ UNCHANGED <<now, len, pc, call, res, ctxDone, sweeps, lastw>>

\* The callback for the next removed entry, its first statement: c.len.Add(-1).
SweepDecrement(s) ==
    /\ jpc[s] = "cb"
    /\ len' = afterIteration(len)
    /\ jpc' = [jpc EXCEPT ![s] = "evict"]
    /\ UNCHANGED <<now, items, wlock, rlock, pc, call, res, evicted, ctxDone, sweeps, lastw>>

\* The callback's second statement: cfg.onEvict(key, value).  The onEvict of
\* this cache calls Set(key, value) on the cache itself, which needs the lock
\* of the key's shard.
SweepOnEvict(s) ==
    LET e == Head(evicted[s])
        t == getShard(e.key)
        o == setStore(items[t], e.key, e.value, NoExpiration, e.key \notin DOMAIN items[t], now)
    IN  /\ jpc[s] = "evict"
        /\ wlock[t] = None
        /\ rlock[t] = {}
        /\ items' = [items EXCEPT ![t] = o.m]
        /\ len' = len + lenDelta("Set", o.ok)
        /\ lastw' = [lastw EXCEPT ![e.key] = [by |-> "set", value |-> e.value, until |-> 0]]
        /\ evicted' = [evicted EXCEPT ![s] = Tail(@)]
        /\ jpc' = [jpc EXCEPT ![s] = IF Tail(evicted[s]) = <<>> THEN "wait" ELSE "cb"]
        /\ UNCHANGED <<now, wlock, rlock, pc, call, res, ctxDone, sweeps>>

\* the calls of the caller of this cache
EvOps == {"SetTtl", "Remove"}

\* One caller, the janitors with the per-entry callback, and the clock.
NextEv ==
    \/ Tick
    \/ \E op \in EvOps, key \in EvKeys : Acquire("p1", op, key)
    \/ Lookup("p1")
    \/ \E a \in CallArgs(call["p1"].op) : Write("p1", a.value, a.ttl, a.fn)
    \/ Finish("p1", FALSE)
    \/ \E s \in Shards : SweepLock(s)
    \/ \E s \in Shards : SweepBodyEv(s)
    \/ \E s \in Shards : SweepDecrement(s)
    \/ \E s \in Shards : SweepOnEvict(s)

SpecEv == InitEv /\ [][NextEv]_vars

\* cfg.onEvict(key, value) panics.  Neither the callback nor the goroutine of
\* runOn recovers, so the panic leaves the janitor's goroutine and the runtime
\* ends the process: the janitor of s is "panicked", every other goroutine,
\* janitor or caller, is "dead".
SweepOnEvictPanics(s) ==
    /\ jpc[s] = "evict"
    /\ jpc' = [t \in Shards |-> IF t = s THEN "panicked" ELSE "dead"]
    /\ pc' = [p \in Procs |-> "dead"]
    /\ UNCHANGED <<now, items, wlock, rlock, len, call, res, evicted, ctxDone, sweeps, lastw>>

\* The cache with the per-entry callback, whose onEvict may panic.
NextPanic ==
    \/ NextEv
    \/ \E s \in Shards : SweepOnEvictPanics(s)

SpecPanic == InitEv /\ [][NextPanic]_vars

\* ------------------------------------------------------------ construction
\* Config.validate with the bound of the shard count one lower.
validate_lenient(shards) == IF shards < 0 THEN "ErrInvalidConfig" ELSE "nil"

\* Config.validate: the error it returns, "nil" for none.
validate(shards) == IF shards < 1 THEN "ErrInvalidConfig" ELSE "nil"

\* the shard counts a Config is given
ShardArgs == -1 .. MaxShards

\* Before construction: no cache, no shard, no janitor.  Caller p1 is about to
\* call NewWithConfig(ctx, cfg); call.value holds cfg.shards.
InitNew ==
    /\ now = 1
    /\ items = <<>>
    /\ wlock = <<>>
    /\ rlock = <<>>
    /\ len = 0
    /\ pc = [p \in Procs |-> IF p = "p1" THEN "new" ELSE "idle"]
    /\ \E n \in ShardArgs :
           call = [p \in Procs |->
                      IF p = "p1" THEN [NoCall EXCEPT !.op = "NewWithConfig", !.value = n]
                      ELSE NoCall]
    /\ res = [p \in Procs |-> NoRes]
    /\ jpc = <<>>
    /\ evicted = <<>>
    /\ ctxDone = FALSE
    /\ sweeps = <<>>
    /\ lastw = [k \in Keys |-> NoWrite]

\* NewWithConfig, its validation: on an error it returns (nil, err); res.ok
\* is err == nil and res.value the error.
NewWithConfig(p) ==
    LET err == validate(call[p].value) IN
    /\ pc[p] = "new"
    /\ pc' = [pc EXCEPT ![p] = IF err = "nil" THEN "build" ELSE "done"]
    /\ res' = [res EXCEPT ![p] = [ok |-> err = "nil", value |-> err, exp |-> 0,
                                  seen |-> <<>>]]
    /\ UNCHANGED <<now, items, wlock, rlock, len, call, jpc, evicted, ctxDone, sweeps, lastw>>

\* newWithConfig: the shards are made and a janitor is started on each; the
\* cache is returned with a nil error.
newWithConfig(p) ==
    LET made == 0 .. (call[p].value - 1) IN
    /\ pc[p] = "build"
    /\ items' = [s \in made |-> <<>>]
    /\ wlock' = [s \in made |-> None]
    /\ rlock' = [s \in made |-> {}]
    /\ jpc' = [s \in made |-> "wait"]
    /\ evicted' = [s \in made |-> 0]
    /\ sweeps' = [s \in made |-> 0]
    /\ pc' = [pc EXCEPT ![p] = "done"]
    /\ UNCHANGED <<now, len, call, res, ctxDone, lastw>>

\* Construction by p1, then the janitors of the shards that were made, the
\* clock, and the cancellation of the context.
NextNew ==
    \/ NewWithConfig("p1")
    \/ newWithConfig("p1")
    \/ Tick
    \/ Cancel
    \/ \E s \in DOMAIN jpc : SweepLock(s)
    \/ \E s \in DOMAIN jpc : SweepBody(s)
    \/ \E s \in DOMAIN jpc : SweepCallback(s)
    \/ \E s \in DOMAIN jpc : SweepStop(s)

SpecNew == InitNew /\ [][NextNew]_vars

\* ----------------------------------------------------------------- routing
\* a mask that is the shard count itself
maskOf_count(shards) == shards

\* newWithConfig: shardMask: uint64(cfg.shards - 1), for any cfg.shards
maskOf(shards) == shards - 1

\* Cache.getShard on a cache of `shards` shards: the index hk & c.shardMask
shardOf(key, shards) == BitAnd(Hash(key), maskOf(shards))

\* A keyed Cache method of caller p, on the cache p1 has built, calls
\* c.getShard(key); call.value holds the index it takes from c.shards.
GetShard(p, key) ==
    /\ pc[p] = "idle"
    /\ pc["p1"] = "done"
    /\ res["p1"].ok
    /\ call' = [call EXCEPT ![p] = [NoCall EXCEPT !.op = "getShard", !.key = key,
                                                  !.value = shardOf(key, call["p1"].value)]]
    /\ pc' = [pc EXCEPT ![p] = "post"]
    /\ UNCHANGED <<now, items, wlock, rlock, len, res, jpc, evicted, ctxDone, sweeps, lastw>>

\* Construction by p1 with any shard count, then keyed calls by p2 that find
\* their shard, the janitors of the shards that were made and the clock.
NextRoute ==
    \/ NewWithConfig("p1")
    \/ newWithConfig("p1")
    \/ \E key \in Keys : GetShard("p2", key)
    \/ Finish("p2", FALSE)
    \/ Tick
    \/ \E s \in DOMAIN jpc : SweepLock(s)
    \/ \E s \in DOMAIN jpc : SweepBody(s)
    \/ \E s \in DOMAIN jpc : SweepCallback(s)

SpecRoute == InitNew /\ [][NextRoute]_vars

\* The same with a second caller, p3, so that two keyed calls made at
\* different times of the cache's life stand side by side.
NextStable ==
    \/ NextRoute
    \/ \E key \in Keys : GetShard("p3", key)
    \/ Finish("p3", FALSE)

SpecStable == InitNew /\ [][NextStable]_vars

\* ----------------------------------------------------------------- ForEach
\* shard.iterate: the keys of m that fn is called for when the clock reads t.
iterate(m, t) == {k \in DOMAIN m : ~(m[k].exp > 0 /\ t > m[k].exp)}

\* Cache.ForEach goes through c.shards in order.  call.value is the index of
\* the shard it is at, res.seen the sequence of (key, value) pairs fn has been
\* called with so far.  Here shard.iterate takes the read lock of that shard,
\* on entering ForEach (pc "idle") or on coming from the shard before ("next").
ForEachLock(p) ==
    LET i == IF pc[p] = "idle" THEN 0 ELSE call[p].value IN
    /\ pc[p] \in {"idle", "next"}
    /\ lockTaken(i, p, TRUE)
    /\ pc' = [pc EXCEPT ![p] = "iter"]
    /\ call' = [call EXCEPT ![p] = [NoCall EXCEPT !.op = "ForEach", !.value = i]]
    /\ res' = [res EXCEPT ![p] = IF pc[p] = "idle"
                                   THEN NoRes
                                   ELSE @]
    /\ UNCHANGED <<now, items, len, jpc, evicted, ctxDone, sweeps, lastw>>

\* shard.iterate ranges over the map, in some order, calling fn for the
\* entries it does not skip, and unlocks; ForEach goes on to the next shard or
\* returns.
ForEachIterate(p) ==
    LET i == call[p].value
        m == items[i]
    IN  /\ pc[p] = "iter"
        /\ IF i + 1 < NumShards
           THEN /\ pc' = [pc EXCEPT ![p] = "next"]
                /\ call' = [call EXCEPT ![p].value = i + 1]
           ELSE /\ pc' = [pc EXCEPT ![p] = "post"]
                /\ UNCHANGED call
        /\ \E q \in Orderings({[key |-> k, value |-> m[k].value] : k \in iterate(m, now)}) :
               res' = [res EXCEPT ![p].seen = @ \o q]
        /\ lockReleased(i, p)
        /\ UNCHANGED <<now, items, len, jpc, evicted, ctxDone, sweeps, lastw>>

\* the writing calls of the caller that also calls ForEach
EachOps == {"SetTtl"}

\* One caller that writes and calls ForEach, one call after the other, the
\* janitors and the clock.
NextEach ==
    \/ Tick
    \/ \E op \in EachOps, key \in Keys : Acquire("p1", op, key)
    \/ Lookup("p1")
    \/ \E a \in CallArgs(call["p1"].op) : Write("p1", a.value, a.ttl, a.fn)
    \/ Finish("p1", FALSE)
    \/ ForEachLock("p1")
    \/ ForEachIterate("p1")
    \/ Janitor

SpecEach == Init /\ [][NextEach]_vars

\* ------------------------------------------------- callbacks that call back
\* The function fn that ForEach of caller p hands to shard.iterate calls a
\* Cache method itself, on p's goroutine, while iterate holds the shard's read
\* lock: f names that nested call.  It has entered Cache.<op>(key, ..) and
\* its shard method has reached s.mux.Lock() or s.mux.RLock().
FnCalls(p, f, op, key) ==
    /\ pc[p] = "iter"
    /\ pc[f] = "idle"
    /\ iterate(items[call[p].value], now) # {}
    /\ pc' = [pc EXCEPT ![f] = "wait"]
    /\ call' = [call EXCEPT ![f] = [op |-> op, key |-> key, value |-> 0, ttl |-> -1,
                                    fn |-> None]]
    /\ UNCHANGED <<now, items, wlock, rlock, len, res, jpc, evicted, ctxDone, sweeps, lastw>>

\* The nested call gets the lock it waits for.
FnLocks(f) ==
    /\ pc[f] = "wait"
    /\ lockTaken(getShard(call[f].key), f, call[f].op \in ReadOps)
    /\ pc' = [pc EXCEPT ![f] = "held"]
    /\ UNCHANGED <<now, items, len, call, res, jpc, evicted, ctxDone, sweeps, lastw>>

\* shard.iterate goes on to its end once the call fn made has returned.
ForEachIterateFn(p, f) ==
    /\ pc[f] = "idle"
    /\ ForEachIterate(p)

\* the Cache methods fn calls
FnOps == {"Set", "SetNx", "SetEx", "Transform", "Remove"}

\* the calls of the other goroutine
OtherOps == {"Set", "Get"}

\* Caller p1 calls ForEach with an fn that calls back into the cache (p3 is
\* the nested call), caller p2 sets and reads, beside the janitors.  No call
\* sets a TTL, so the clock plays no part.
NextFn ==
    \/ ForEachLock("p1")
    \/ \E op \in FnOps, key \in Keys : FnCalls("p1", "p3", op, key)
    \/ FnLocks("p3")
    \/ Lookup("p3")
    \/ \E a \in CallArgs(call["p3"].op) : Write("p3", a.value, a.ttl, a.fn)
    \/ Finish("p3", FALSE)
    \/ ForEachIterateFn("p1", "p3")
    \/ Finish("p1", FALSE)
    \/ \E op \in OtherOps, key \in Keys : Acquire("p2", op, key)
    \/ Lookup("p2")
    \/ \E a \in CallArgs(call["p2"].op) : Write("p2", a.value, a.ttl, a.fn)
    \/ Finish("p2", FALSE)
    \/ Janitor

SpecFn == Init /\ [][NextFn]_vars

\* Two callers beside the janitors and the clock: p1 makes keyed calls on any
\* key, p2 calls ForEach, each one call after the other.
LockProcs == {"p1", "p2"}

LockOps == {"Set", "Get", "Remove"}

NextLock ==
    \/ Tick
    \/ \E op \in LockOps, key \in Keys : Acquire("p1", op, key)
    \/ Lookup("p1")
    \/ \E a \in CallArgs(call["p1"].op) : Write("p1", a.value, a.ttl, a.fn)
    \/ Finish("p1", FALSE)
    \/ ForEachLock("p2")
    \/ ForEachIterate("p2")
    \/ Finish("p2", FALSE)
    \/ Janitor

\* A goroutine that is inside a shard method runs on to its return, a ForEach
\* that waits for the lock of its next shard gets it once it is free often
\* enough, and a sweep that has begun runs to its end.
FairLock ==
    /\ \A p \in LockProcs :
           /\ WF_vars(Lookup(p))
           /\ WF_vars(\E a \in CallArgs(call[p].op) : Write(p, a.value, a.ttl, a.fn))
           /\ WF_vars(Finish(p, FALSE))
           /\ WF_vars(ForEachIterate(p))
           /\ SF_vars(pc[p] = "next" /\ ForEachLock(p))
    /\ \A s \in Shards : WF_vars(SweepBody(s)) /\ WF_vars(SweepCallback(s))

SpecLock == Init /\ [][NextLock]_vars /\ FairLock

\* One caller that writes, reads with Get and calls ForEach, one call after
\* the other, the janitors and the clock.
ReadingOps == EachOps \cup ReadOps

NextRead ==
    \/ Tick
    \/ \E op \in ReadingOps, key \in Keys : Acquire("p1", op, key)
    \/ Lookup("p1")
    \/ \E a \in CallArgs(call["p1"].op) : Write("p1", a.value, a.ttl, a.fn)
    \/ Finish("p1", FALSE)
    \/ ForEachLock("p1")
    \/ ForEachIterate("p1")
    \/ Janitor

SpecRead == Init /\ [][NextRead]_vars

\* ------------------------------------------------------------ cancellation
\* the calls of the caller of a cache whose context gets cancelled
CancelOps == {"SetTtl", "Get"}

\* One caller, the janitors, the clock, and the owner of the context, who may
\* cancel it at any moment.
NextCancel ==
    \/ Tick
    \/ \E op \in CancelOps, key \in Keys : Acquire("p1", op, key)
    \/ Lookup("p1")
    \/ \E a \in CallArgs(call["p1"].op) : Write("p1", a.value, a.ttl, a.fn)
    \/ Finish("p1", FALSE)
    \/ Janitor
    \/ Cancel
    \/ \E s \in Shards : SweepStop(s)

\* A sweep that has begun runs to its end, and a select that finds ctx.Done()
\* ready again and again takes it in the end: select chooses at random among
\* the cases that are ready.
FairCancel ==
    \A s \in Shards :
        /\ WF_vars(SweepBody(s))
        /\ WF_vars(SweepCallback(s))
        /\ SF_vars(SweepStop(s))

SpecCancel == Init /\ [][NextCancel]_vars /\ FairCancel

\* ------------------------------------------------------------ vocabulary
\* the map of the shard key k is routed to
shardMap(k) == items[getShard(k)]

\* An entry with expiration e is expired at t when its TTL is set and has
\* elapsed, the instant t = e included.
expiredAt(e, t) == e > 0 /\ t >= e

liveAt(m, k, t) == k \in DOMAIN m /\ ~expiredAt(m[k].exp, t)

\* the entry key k has in its shard
entry(k) == lookup(shardMap(k), k)

\* the steps of caller p
LookupStep(p) == pc[p] = "held" /\ pc'[p] # "held"
WriteStep(p) == pc[p] = "write" /\ pc'[p] = "post"
FinishStep(p) == pc[p] = "post" /\ pc'[p] # "post"

\* Get's lookup by p finds the value of the last write of its key
GetReads(p) ==
    /\ res'[p].ok
    /\ retValue("Get", res'[p]) = lastw[call[p].key].value

\* Get's lookup by p misses and hands back the zero value
GetMisses(p) ==
    /\ ~res'[p].ok
    /\ retValue("Get", res'[p]) = ZeroV

\* ------------------------------------------------------------------ claims
\* C1: read-your-write.  When the last write of k by a caller is a Set(k, v),
\* or a SetTtl(k, v, d) with d > 0 of which less than d has elapsed, and no
\* caller has written or removed k since, Get(k) returns (v, true), whatever
\* the janitors did in between.
C1_ReadYourWrite ==
    [][\A p \in Procs :
          (/\ LookupStep(p)
           /\ call[p].op = "Get"
           /\ lastw[call[p].key].by = "set"
           /\ \/ lastw[call[p].key].until = 0
              \/ now < lastw[call[p].key].until)
          => GetReads(p)]_vars

\* A Get has just returned the value of a SetTtl whose ttl has not elapsed.
C1_Witness ==
    \E p \in Procs :
        /\ pc[p] = "post"
        /\ call[p].op = "Get"
        /\ lastw[call[p].key].by = "set"
        /\ now < lastw[call[p].key].until
        /\ res[p].ok
        /\ res[p].value = lastw[call[p].key].value
        /\ res[p].value = 2

\* C2: TTL boundary.  After SetTtl(k, v, d) with d > 0 and no later write of
\* k, Get(k) returns (v, true) at every instant with elapsed time < d and
\* (zero value, false) at every instant with elapsed time >= d, the instant
\* elapsed = d included, whether or not the janitor has run.
C2_TtlBoundary ==
    [][\A p \in Procs :
          (/\ LookupStep(p)
           /\ call[p].op = "Get"
           /\ lastw[call[p].key].by = "set"
           /\ lastw[call[p].key].until > 0)
          => IF now < lastw[call[p].key].until THEN GetReads(p) ELSE GetMisses(p)]_vars

\* C3: Remove(k) and GetAndRemove(k) on a key that is present and not expired
\* delete the entry and return found = true with the stored value; Get(k)
\* then misses and Count() has decreased by exactly 1.
C3_RemoveLive ==
    [][\A p \in Procs :
          /\ (/\ WriteStep(p)
              /\ call[p].op \in RemoveOps
              /\ liveAt(shardMap(call[p].key), call[p].key, now))
             => /\ res'[p].ok
                /\ res'[p].value = shardMap(call[p].key)[call[p].key].value
                /\ call[p].key \notin DOMAIN items'[getShard(call[p].key)]
                /\ ~get(items'[getShard(call[p].key)], call[p].key, now).ok
          /\ (/\ FinishStep(p)
              /\ call[p].op \in RemoveOps
              /\ res[p].ok)
             => len' = len - 1]_vars

\* C4: Remove ignores expired entries.  When the TTL of k's entry has elapsed
\* (elapsed >= d), Remove(k) and GetAndRemove(k) return found = false and the
\* zero value, leave the entry in the shard map, and do not change Count().
C4_RemoveExpired ==
    [][\A p \in Procs :
          /\ (/\ WriteStep(p)
              /\ call[p].op \in RemoveOps
              /\ call[p].key \in DOMAIN shardMap(call[p].key)
              /\ expiredAt(shardMap(call[p].key)[call[p].key].exp, now))
             => /\ ~res'[p].ok
                /\ res'[p].value = ZeroV
                /\ items' = items
          /\ (/\ FinishStep(p)
              /\ call[p].op \in RemoveOps
              /\ ~res[p].ok)
             => len' = len]_vars

\* C5: SetNx under contention.  When N callers have each made one SetNx call
\* on a key that had no entry, exactly one call returned true and the value
\* stored for the key is the value of that call.
C5_SetNxOneWinner ==
    (\A p \in Procs : pc[p] = "done")
    => /\ Cardinality({p \in Procs : res[p].ok}) = 1
       /\ \A p \in Procs :
              res[p].ok => shardMap(NxKey) = (NxKey :> item(NxValue(p), NoExpiration))
       /\ len = 1

\* All N calls have returned; the last caller to start was not the winner and
\* the winner is not the first caller.
C5_Witness ==
    /\ \A p \in Procs : pc[p] = "done"
    /\ res["p2"].ok
    /\ ~res["p1"].ok
    /\ ~res["p3"].ok

\* C6: SetNx(k, v) and SetNxTtl(k, v, ttl) on a key whose entry is live return
\* false and change nothing: the shard maps (value and expiration of the
\* entry) and Count() are the same after the call as before it.
C6_SetNxLiveNoop ==
    [][\A p \in Procs :
          /\ (/\ LookupStep(p)
              /\ call[p].op \in NxOps
              /\ liveAt(shardMap(call[p].key), call[p].key, now))
             => /\ pc'[p] = "post"
                /\ ~res'[p].ok
                /\ items' = items
                /\ len' = len
          /\ (/\ FinishStep(p)
              /\ call[p].op \in NxOps
              /\ ~res[p].ok)
             => /\ items' = items
                /\ len' = len]_vars

\* A SetNx or SetNxTtl on an entry with a TTL that has not elapsed has just
\* returned false.
C6_Witness ==
    \E p \in Procs :
        /\ pc[p] = "post"
        /\ call[p].op \in NxOps
        /\ ~res[p].ok
        /\ call[p].key \in DOMAIN shardMap(call[p].key)
        /\ shardMap(call[p].key)[call[p].key].exp > now

\* C7: SetNx(k, v) on a key whose entry has expired, swept or not, returns
\* true and leaves the entry (v, never expires), exactly as on a key that
\* never existed; a following Get(k) returns (v, true).
C7_SetNxExpired ==
    [][\A p \in Procs :
          /\ (/\ LookupStep(p)
              /\ call[p].op = "SetNx"
              /\ ~liveAt(shardMap(call[p].key), call[p].key, now))
             => /\ pc'[p] = "write"
                /\ items' = items
          /\ (/\ WriteStep(p)
              /\ call[p].op = "SetNx")
             => /\ res'[p].ok
                /\ items'[getShard(call[p].key)] =
                       store(shardMap(call[p].key), call[p].key,
                             item(call'[p].value, NoExpiration))
          /\ (/\ LookupStep(p)
              /\ call[p].op = "Get"
              /\ lastw[call[p].key].by = "setNX"
              /\ lastw[call[p].key].until = 0)
             => GetReads(p)]_vars

\* SetNx has found an entry whose TTL elapsed and that no sweep has removed,
\* and goes on to store.
C7_Witness ==
    \E p \in Procs :
        /\ pc[p] = "write"
        /\ call[p].op = "SetNx"
        /\ call[p].key \in DOMAIN shardMap(call[p].key)
        /\ expiredAt(shardMap(call[p].key)[call[p].key].exp, now)

\* C8: SetEx(k, v) and SetExTtl(k, v, ttl) on a key that was never set, or
\* whose entry has expired (elapsed >= d), return false, create and modify no
\* entry, leave Count() unchanged, and a following Get(k) misses.
C8_SetExAbsentNoop ==
    [][\A p \in Procs :
          /\ (/\ LookupStep(p)
              /\ call[p].op \in ExOps
              /\ ~liveAt(shardMap(call[p].key), call[p].key, now))
             => /\ pc'[p] = "post"
                /\ ~res'[p].ok
                /\ items' = items
                /\ len' = len
                /\ \A t \in now .. MaxTime :
                       ~get(items'[getShard(call[p].key)], call[p].key, t).ok
          /\ (/\ FinishStep(p)
              /\ call[p].op \in ExOps
              /\ ~res[p].ok)
             => /\ items' = items
                /\ len' = len]_vars

\* C9: SetEx(k, v) and SetExTtl(k, v, ttl) on a key whose entry is live return
\* true and overwrite value and expiration: the entry holds v and never
\* expires after SetEx (and after SetExTtl with ttl <= 0), and expires at the
\* instant of the store + ttl after SetExTtl with ttl > 0, whatever its
\* expiration was; Get(k) then returns (v, true) until that instant.
C9_SetExOverwrites ==
    [][\A p \in Procs :
          /\ (/\ LookupStep(p)
              /\ call[p].op \in ExOps
              /\ liveAt(shardMap(call[p].key), call[p].key, now))
             => pc'[p] = "write"
          /\ (/\ WriteStep(p)
              /\ call[p].op \in ExOps)
             => /\ res'[p].ok
                /\ items'[getShard(call[p].key)] =
                       store(shardMap(call[p].key), call[p].key,
                             item(call'[p].value,
                                  IF call[p].op = "SetExTtl" /\ call'[p].ttl > 0
                                  THEN now + call'[p].ttl
                                  ELSE NoExpiration))
          /\ (/\ LookupStep(p)
              /\ call[p].op = "Get"
              /\ lastw[call[p].key].by = "setEX"
              /\ \/ lastw[call[p].key].until = 0
                 \/ now < lastw[call[p].key].until)
             => GetReads(p)]_vars

\* A Get has just returned the value a SetExTtl with ttl > 0 stored, after
\* the clock moved on and before that ttl elapsed.
C9_Witness ==
    \E p \in Procs :
        /\ pc[p] = "post"
        /\ call[p].op = "Get"
        /\ lastw[call[p].key].by = "setEX"
        /\ lastw[call[p].key].until > now
        /\ now > 1
        /\ res[p].ok
        /\ res[p].value = lastw[call[p].key].value

\* C10: a SetEx or SetExTtl call that returns true leaves Count() as it was.
C10_SetExKeepsCount ==
    [][\A p \in Procs :
          /\ (/\ pc[p] \in {"held", "write"}
              /\ pc'[p] # pc[p]
              /\ call[p].op \in ExOps)
             => len' = len
          /\ (/\ FinishStep(p)
              /\ call[p].op \in ExOps
              /\ res[p].ok)
             => len' = len]_vars

\* C11: Transform preserves TTL.  A Transform(k, f) that finds a live entry
\* returns true and leaves the entry with the value f(old value) and with its
\* expiration instant as it was; after SetTtl(k, v0, d) and such a Transform,
\* Get(k) returns (f(v0), true) while less than d has elapsed since the SetTtl,
\* and the entry still expires at the instant the SetTtl gave it.
C11_TransformKeepsTtl ==
    [][\A p \in Procs :
          /\ (/\ LookupStep(p)
              /\ call[p].op \in TransformOps
              /\ liveAt(shardMap(call[p].key), call[p].key, now))
             => pc'[p] = "write"
          /\ (/\ WriteStep(p)
              /\ call[p].op \in TransformOps)
             => /\ res'[p].ok
                /\ items'[getShard(call[p].key)] =
                       store(shardMap(call[p].key), call[p].key,
                             item(effect(call'[p].fn, entry(call[p].key).value),
                                  entry(call[p].key).exp))
                /\ lastw[call[p].key].until > 0
                   => items'[getShard(call[p].key)][call[p].key].exp =
                          lastw[call[p].key].until
          /\ (/\ LookupStep(p)
              /\ call[p].op = "Get"
              /\ lastw[call[p].key].by = "transform"
              /\ \/ lastw[call[p].key].until = 0
                 \/ now < lastw[call[p].key].until)
             => GetReads(p)]_vars

\* A Get has just returned the transformed value of an entry with a TTL, at an
\* instant after the Transform and before the TTL elapsed.
C11_Witness ==
    \E p \in Procs :
        /\ pc[p] = "post"
        /\ call[p].op = "Get"
        /\ lastw[call[p].key].by = "transform"
        /\ lastw[call[p].key].until > now
        /\ res[p].ok
        /\ res[p].value = lastw[call[p].key].value
        /\ entry(call[p].key).exp = lastw[call[p].key].until

\* C12: Transform(k, f) on a key that has no entry, or whose entry has expired
\* (elapsed >= d), returns false and writes nothing: the shard maps and Count()
\* are as before, and a following Get(k) misses.
C12_TransformAbsentNoop ==
    [][\A p \in Procs :
          /\ (/\ LookupStep(p)
              /\ call[p].op \in TransformOps
              /\ ~liveAt(shardMap(call[p].key), call[p].key, now))
             => /\ pc'[p] = "post"
                /\ ~res'[p].ok
                /\ items' = items
                /\ len' = len
                /\ \A t \in now .. MaxTime :
                       ~get(items'[getShard(call[p].key)], call[p].key, t).ok
          /\ (/\ FinishStep(p)
              /\ call[p].op \in TransformOps
              /\ ~res[p].ok)
             => /\ items' = items
                /\ len' = len]_vars

\* the orders in which the callers can be lined up
Orders == {o \in [1 .. Cardinality(Procs) -> Procs] : \A i, j \in DOMAIN o : o[i] = o[j] => i = j}

\* the effectors of the callers o[1], .., o[n] applied one after another to v
RECURSIVE applied(_, _, _)
applied(o, n, v) == IF n = 0 THEN v ELSE effect(TrFn(o[n]), applied(o, n - 1, v))

\* C13: Transform is atomic per key.  When N callers have each made one
\* Transform call on a live key without TTL holding v0, every call returned
\* true and the value stored is the result of applying the N effectors to v0
\* one after another in some order: no update is lost.
C13_TransformAtomic ==
    (\A p \in Procs : pc[p] = "done")
    => /\ \A p \in Procs : res[p].ok
       /\ \E o \in Orders :
              shardMap(TrKey) = (TrKey :> item(applied(o, Cardinality(Procs), TrV0), NoExpiration))
       /\ len = 1

\* All N calls have returned and the doubling ran between the two increments.
C13_Witness ==
    /\ \A p \in Procs : pc[p] = "done" /\ res[p].ok
    /\ entry(TrKey).value = 5

\* the keys some caller has set
keysSet == {k \in Keys : lastw[k].by = "set"}

\* C14: counting under concurrent inserts and updates.  Whenever all the Set
\* calls (without TTL) that callers made concurrently on M distinct keys have
\* returned, Count() is M and Get of each of the keys returns the value last
\* written to it.
C14_ConcurrentSetCount ==
    (\A p \in Procs : pc[p] = "idle")
    => /\ len = Cardinality(keysSet)
       /\ \A k \in keysSet :
              /\ get(shardMap(k), k, now).ok
              /\ retValue("Get", get(shardMap(k), k, now)) = lastw[k].value

\* All calls have returned, both keys are set, the clock has moved on, and
\* key "a" holds the second value.
C14_Witness ==
    /\ \A p \in Procs : pc[p] = "idle"
    /\ keysSet = Keys
    /\ len = Cardinality(Keys)
    /\ now > 1
    /\ entry("a").value = 2
    /\ entry("b").value = 1

\* no call and no sweep is in progress
quiescent == (\A p \in Procs : pc[p] = "idle") /\ (\A s \in Shards : jpc[s] = "wait")

\* the keys that have an entry in their shard's map
present == {k \in Keys : k \in DOMAIN shardMap(k)}

\* the keys whose entry is live at t
live(t) == {k \in Keys : liveAt(shardMap(k), k, t)}

\* C15: the counter is exact except for expiry lag.  In every state where no
\* call and no sweep is in progress and no shard holds an expired entry,
\* Count() is the number of live entries.
C15_CountExact ==
    (quiescent /\ present = live(now)) => len = Cardinality(live(now))

\* C16: the counter never undercounts.  In every reachable state, under any
\* interleaving of calls and sweeps, Count() is at least the number of entries
\* present, live or expired, in the shard maps.
C16_NeverUndercounts == len >= Cardinality(present)

\* every entry whose TTL ran out has been swept and the counter has settled on
\* the number of entries that are left
converged ==
    /\ \A s \in Shards : sweepable(items[s], now) = {}
    /\ len = Cardinality(present)

\* C17: counter convergence.  Once the callers stop calling, and the janitors
\* have swept every shard after the last entry expired, Count() is and stays
\* the exact number of entries left in the cache.
C17_CounterConverges ==
    <>[](\A p \in Procs : pc[p] = "idle") => <>[]converged

\* C18: construction validation.  NewWithConfig returns (nil, an error that
\* wraps ErrInvalidConfig) if and only if the configured shard count is below
\* 1, and then no shard and no janitor is ever created; for every shard count
\* of 1 or more it returns a cache with that many shards and a nil error.
C18_ConstructionValidation ==
    LET n == call["p1"].value IN
    /\ n < 1 => items = <<>> /\ jpc = <<>>
    /\ pc["p1"] = "done"
       => /\ ~res["p1"].ok <=> n < 1
          /\ ~res["p1"].ok => res["p1"].value = "ErrInvalidConfig"
          /\ res["p1"].ok
             => /\ res["p1"].value = "nil"
                /\ DOMAIN items = 0 .. (n - 1)
                /\ DOMAIN jpc = 0 .. (n - 1)

\* NewWithConfig has returned the error for a shard count of 0, and the clock
\* has moved on.
C18_Witness ==
    /\ pc["p1"] = "done"
    /\ call["p1"].value = 0
    /\ ~res["p1"].ok
    /\ items = <<>>
    /\ now > 1

\* the steps of the janitor of shard s
SweepStep(s) == jpc[s] = "held" /\ jpc'[s] # "held"
DecrementStep(s) == jpc[s] = "cb" /\ jpc'[s] = "evict"
OnEvictStep(s) == jpc[s] = "evict" /\ jpc'[s] # "evict"

\* the entries a step removes from shard s, as (key, value) pairs
removedIn(s) ==
    {[key |-> k, value |-> items[s][k].value] : k \in (DOMAIN items[s]) \ (DOMAIN items'[s])}

\* the elements of the sequence q
Range(q) == {q[i] : i \in DOMAIN q}

\* C19: eviction callback delivery.  A sweep removes only expired entries and
\* queues each entry it removed once; for each queued entry the counter is
\* first decremented by one and then onEvict is called once with the key and
\* the value the entry held; the janitor sweeps again only when the queue is
\* empty; and nothing else is ever queued or taken from the queue: a Remove,
\* an overwrite or a live entry brings no onEvict call.
C19_EvictionCallback ==
    [][\A s \in Shards :
          /\ SweepStep(s)
             => /\ Range(evicted'[s]) = removedIn(s)
                /\ Len(evicted'[s]) = Cardinality(removedIn(s))
                /\ \A k \in (DOMAIN items[s]) \ (DOMAIN items'[s]) :
                       expiredAt(items[s][k].exp, now)
          /\ DecrementStep(s)
             => /\ len' = len - 1
                /\ evicted' = evicted
                /\ items' = items
          /\ OnEvictStep(s)
             => /\ evicted[s] # <<>>
                /\ evicted'[s] = Tail(evicted[s])
                /\ items'[getShard(Head(evicted[s]).key)][Head(evicted[s]).key] =
                       item(Head(evicted[s]).value, NoExpiration)
          /\ evicted'[s] # evicted[s] => SweepStep(s) \/ OnEvictStep(s)
          /\ jpc'[s] = "evict" => jpc[s] \in {"cb", "evict"}
          /\ jpc'[s] \in {"wait", "held"} => evicted'[s] = <<>>]_vars

\* A sweep has removed two entries of one shard; onEvict has been called for
\* the first and the counter has been decremented for the second.
C19_Witness ==
    \E s \in Shards :
        /\ jpc[s] = "evict"
        /\ Len(evicted[s]) = 1
        /\ \E k \in EvKeys :
               /\ k # evicted[s][1].key
               /\ k \in DOMAIN items[s]
               /\ items[s][k].exp = NoExpiration
               /\ lastw[k].by = "set"
               /\ lastw[k].until = 0

\* C20: the eviction callback runs after the sweep has released the shard's
\* lock.  While the callback of a sweep is pending or running, the janitor
\* holds no shard lock, and an onEvict that calls Set on the same cache, for a
\* key of the shard just swept, can go ahead as soon as no caller is inside
\* that shard: it does not wait for the janitor itself.
C20_CallbackAfterUnlock ==
    \A s \in Shards :
        jpc[s] \in {"cb", "evict"}
        => /\ \A t \in Shards : wlock[t] # "janitor" \/ jpc[t] = "held"
           /\ "janitor" \notin rlock[s]
           /\ (jpc[s] = "evict" /\ \A p \in Procs : pc[p] \notin {"held", "write"})
              => ENABLED SweepOnEvict(s)

\* onEvict is about to call Set for a key of the shard its janitor has just
\* swept, while no caller is inside a shard.
C20_Witness ==
    \E s \in Shards :
        /\ jpc[s] = "evict"
        /\ getShard(Head(evicted[s]).key) = s
        /\ wlock[s] = None
        /\ \A p \in Procs : pc[p] = "idle"

\* C21: cancellation.  After the context is cancelled every janitor stops in
\* the end, having begun at most one further sweep; the cancellation itself
\* changes no shard map and not the counter; and a Get after it returns what
\* shard.get makes of the map and the clock, an entry whose expiration has
\* passed being reported absent.
C21_Cancellation ==
    /\ [](\A s \in Shards : sweeps[s] <= 1)
    /\ [][ctxDone' # ctxDone => items' = items /\ len' = len /\ pc' = pc /\ res' = res]_vars
    /\ [][\A p \in Procs :
             (LookupStep(p) /\ call[p].op = "Get" /\ ctxDone)
             => /\ res'[p].ok = get(shardMap(call[p].key), call[p].key, now).ok
                /\ now > entry(call[p].key).exp /\ entry(call[p].key).exp > 0 => ~res'[p].ok]_vars
    /\ \A s \in Shards : ctxDone ~> jpc[s] = "stopped"

\* C22: sweeper failure isolation.  When the eviction callback panics during
\* the sweep of one shard, the janitors of the other shards are left as they
\* were, and they go on sweeping: none of them is ever ended by it.
C22_PanicIsolation ==
    /\ [][\A s \in Shards :
             jpc'[s] = "panicked" /\ jpc[s] # "panicked"
             => \A t \in Shards \ {s} : jpc'[t] = jpc[t]]_vars
    /\ [](\A s \in Shards : jpc[s] # "dead")

\* shard.iterate's step of caller p
IterateStep(p) == pc[p] = "iter" /\ pc'[p] # "iter"

\* the (key, value) pairs fn is called with in a step of p
calledIn(p) == {res'[p].seen[n] : n \in (DOMAIN res'[p].seen) \ (DOMAIN res[p].seen)}

\* C23: ForEach, with no writer running beside it, calls fn exactly once for
\* every live entry, with its key and the value it holds, and never for an
\* entry that has expired (elapsed >= d), swept or not: each shard's iteration
\* calls fn once for each entry of the shard that is live at that instant, and
\* for nothing else.
C23_ForEachLive ==
    [][\A p \in Procs :
          IterateStep(p)
          => /\ calledIn(p) = {[key |-> k, value |-> items[call[p].value][k].value] :
                                  k \in {x \in DOMAIN items[call[p].value] :
                                            liveAt(items[call[p].value], x, now)}}
             /\ Len(res'[p].seen) = Len(res[p].seen) + Cardinality(calledIn(p))
             /\ \A n \in DOMAIN res[p].seen : res'[p].seen[n] = res[p].seen[n]]_vars

\* C25: GetAndSetEx(k, v) and GetAndSetExTtl(k, v, ttl) on a key whose entry
\* is live return (old value, true) and store v with the new expiration,
\* Count() unchanged; on a key that is absent or whose entry has expired
\* (elapsed >= d) they return (zero value, false) and write nothing, so that a
\* following Get(k) returns (zero value, false).
C25_GetAndSetEx ==
    [][\A p \in Procs :
          /\ (/\ LookupStep(p)
              /\ call[p].op \in GetSetOps
              /\ liveAt(shardMap(call[p].key), call[p].key, now))
             => /\ pc'[p] = "write"
                /\ res'[p].value = entry(call[p].key).value
          /\ (/\ WriteStep(p)
              /\ call[p].op \in GetSetOps)
             => /\ res'[p].ok
                /\ retValue(call[p].op, res'[p]) = entry(call[p].key).value
                /\ items'[getShard(call[p].key)] =
                       store(shardMap(call[p].key), call[p].key,
                             item(call'[p].value,
                                  IF call[p].op = "GetAndSetExTtl" /\ call'[p].ttl > 0
                                  THEN now + call'[p].ttl
                                  ELSE NoExpiration))
                /\ len' = len
          /\ (/\ LookupStep(p)
              /\ call[p].op \in GetSetOps
              /\ ~liveAt(shardMap(call[p].key), call[p].key, now))
             => /\ pc'[p] = "post"
                /\ ~res'[p].ok
                /\ retValue(call[p].op, res'[p]) = ZeroV
                /\ items' = items
                /\ len' = len
                /\ \A t \in now .. MaxTime :
                       LET g == get(items'[getShard(call[p].key)], call[p].key, t)
                       IN  ~g.ok /\ retValue("Get", g) = ZeroV
          /\ (/\ FinishStep(p)
              /\ call[p].op \in GetSetOps)
             => /\ items' = items
                /\ len' = len]_vars

\* The same without the following Get.
C25_WithoutGet ==
    [][\A p \in Procs :
          /\ (/\ LookupStep(p)
              /\ call[p].op \in GetSetOps
              /\ liveAt(shardMap(call[p].key), call[p].key, now))
             => /\ pc'[p] = "write"
                /\ res'[p].value = entry(call[p].key).value
          /\ (/\ WriteStep(p)
              /\ call[p].op \in GetSetOps)
             => /\ res'[p].ok
                /\ retValue(call[p].op, res'[p]) = entry(call[p].key).value
                /\ len' = len
          /\ (/\ LookupStep(p)
              /\ call[p].op \in GetSetOps
              /\ ~liveAt(shardMap(call[p].key), call[p].key, now))
             => /\ pc'[p] = "post"
                /\ ~res'[p].ok
                /\ retValue(call[p].op, res'[p]) = ZeroV
                /\ items' = items
                /\ len' = len
          /\ (/\ FinishStep(p)
              /\ call[p].op \in GetSetOps)
             => /\ items' = items
                /\ len' = len]_vars

\* the calls that hand back a value and a found flag
ValueReturning == {"Get", "GetAndRemove"} \cup GetSetOps

\* C24: a miss never leaks a stale value.  Whenever Get, GetAndRemove,
\* GetAndSetEx or GetAndSetExTtl returns found = false, the value it returns is
\* the zero value, whatever the shard's map holds for the key.
C24_MissReturnsZero ==
    \A p \in Procs :
        (/\ pc[p] = "post"
         /\ call[p].op \in ValueReturning
         /\ ~res[p].ok)
        => retValue(call[p].op, res[p]) = ZeroV

\* A Get has just missed on a key whose expired entry, holding a value other
\* than zero, is still in the shard's map.
C24_Witness ==
    \E p \in Procs :
        /\ pc[p] = "post"
        /\ call[p].op = "Get"
        /\ ~res[p].ok
        /\ call[p].key \in DOMAIN shardMap(call[p].key)
        /\ entry(call[p].key).value # ZeroV

\* The same for a refused GetAndRemove.
C24_RemoveRefused ==
    \E p \in Procs :
        /\ pc[p] = "post"
        /\ call[p].op = "GetAndRemove"
        /\ ~res[p].ok
        /\ call[p].key \in DOMAIN shardMap(call[p].key)
        /\ entry(call[p].key).value # ZeroV

\* The same for a refused GetAndSetEx or GetAndSetExTtl.
C24_GetSetRefused ==
    \E p \in Procs :
        /\ pc[p] = "post"
        /\ call[p].op \in GetSetOps
        /\ ~res[p].ok
        /\ call[p].key \in DOMAIN shardMap(call[p].key)
        /\ entry(call[p].key).value # ZeroV

\* The call (op, key, value, ttl, fn) executed on map m with nothing running
\* beside it, its lookup at tl and its store or delete at tw: the map it
\* leaves and what the shard method returns.
sequentially(m, op, key, value, ttl, fn, tl, tw) ==
    LET l == shardLookup(m, op, key, tl)
    IN  IF l.to = "post"
        THEN l
        ELSE shardWrite(m, op, key, value, ttl, fn,
                        [ok |-> l.ok, value |-> l.value, exp |-> l.exp], tw)

\* caller p is inside a shard method, holding the shard's lock
inShard(p) == pc[p] \in {"held", "write"}

\* the step in which caller p's shard method returns and releases the lock
ReturnStep(p) == inShard(p) /\ pc'[p] = "post"

\* C26: per-key linearizability.  Concurrent Get, Set, SetTtl, SetNx, SetEx,
\* Transform and Remove calls on one key take effect one at a time in the
\* order in which they acquired the shard's lock: from the moment a call has
\* the lock until it returns, no other call and no sweep changes the entry or
\* (for a writing call) runs inside the shard, and what the call returns and
\* the entry it leaves are those of executing it alone on the entry its
\* predecessor in that order left.
C26_Linearizable ==
    [][\A p \in Procs :
          /\ (inShard(p) /\ pc'[p] = pc[p])
             => /\ items'[getShard(call[p].key)] = shardMap(call[p].key)
                /\ call[p].op \notin ReadOps
                   => \A q \in Procs \ {p} :
                          /\ ~inShard(q)'
                          /\ jpc'[getShard(call[p].key)] # "held"
          /\ ReturnStep(p)
             => \E tl \in 1 .. now :
                    LET c == call'[p]
                        q == sequentially(shardMap(c.key), c.op, c.key,
                                          c.value, c.ttl, c.fn, tl, now)
                    IN  /\ items'[getShard(c.key)] = q.m
                        /\ res'[p].ok = q.ok
                        /\ retValue(c.op, res'[p]) = retValue(c.op, q)]_vars

\* Two calls on the key overlap: a Set has stored and not yet returned to its
\* caller, and the SetNx that took the lock after it has found the entry and
\* refused.
C26_Witness ==
    \E p, q \in LinProcs :
        /\ pc[p] = "post" /\ call[p].op = "Set" /\ res[p].ok
        /\ pc[q] = "post" /\ call[q].op = "SetNx" /\ ~res[q].ok
        /\ len = 0
        /\ entry(LinKey).value = call[p].value

\* C27: shard routing.  For every key and every configured shard count
\* n >= 1, a power of two or not, the index of the shard a keyed operation
\* uses is hash(key) mod n.
C27_ShardRouting ==
    \A p \in Procs :
        call[p].op = "getShard"
        => call[p].value = Hash(call[p].key) % call["p1"].value

\* The same for the shard counts that are powers of two.
C27_PowersOfTwo ==
    \A p \in Procs :
        (call[p].op = "getShard" /\ call["p1"].value \in {1, 2, 4, 8})
        => call[p].value = Hash(call[p].key) % call["p1"].value

\* A keyed call has found its shard, not the first, in a cache of two shards.
C27_PowersOfTwoWitness ==
    \E p \in Procs : call[p].op = "getShard" /\ call["p1"].value = 2 /\ call[p].value > 0

\* Whether each shard method takes the entry of key k in map m for expired
\* when it reads the clock at t: the branch its comparison of exp and the
\* clock sends it to.
getSees(m, k, t) == ~get(m, k, t).ok
iterateSees(m, k, t) == k \notin iterate(m, t)
transformSees(m, k, t) == transformCheck(m, k, t).to = "post"
setNXSees(m, k, t) == setNXCheck(m, k, t).to = "write"
setEXSees(m, k, t) == setEXCheck(m, k, t).to = "post"
removeSees(m, k, t) == m[k].exp > 0 /\ removeDelete(m, k, m[k], t).to = "post" /\ removeDelete(m, k, m[k], t).ok
cleanExpiredSees(m, k, t) == k \in sweepable(m, t)

\* the methods' verdicts on key k of map m at t
verdicts(m, k, t) ==
    {getSees(m, k, t), iterateSees(m, k, t), transformSees(m, k, t), setNXSees(m, k, t),
     setEXSees(m, k, t), removeSees(m, k, t), cleanExpiredSees(m, k, t)}

\* C28: uniform expiry predicate.  For every stored expiration e and instant
\* now, get, iterate, transform, setNX, setEX, remove and cleanExpired agree on
\* whether the entry is expired, and at now = e they all take it for expired:
\* their common verdict is that of "e is set and now >= e".
C28_UniformExpiry ==
    \A k \in present :
        verdicts(shardMap(k), k, now) = {expiredAt(entry(k).exp, now)}

\* Away from the instant of expiration the methods agree.
C28_AwayFromTie ==
    \A k \in present :
        entry(k).exp # now
        => verdicts(shardMap(k), k, now) = {expiredAt(entry(k).exp, now)}

\* At the instant of expiration setNX and remove take the entry for expired
\* and get, iterate, transform, setEX and cleanExpired take it for live.
C28_AtTie ==
    \A k \in present :
        entry(k).exp = now
        => /\ setNXSees(shardMap(k), k, now) /\ removeSees(shardMap(k), k, now)
           /\ ~getSees(shardMap(k), k, now) /\ ~iterateSees(shardMap(k), k, now)
           /\ ~transformSees(shardMap(k), k, now) /\ ~setEXSees(shardMap(k), k, now)
           /\ ~cleanExpiredSees(shardMap(k), k, now)

\* An entry is in the map at the instant of its expiration.
C28_TieReached ==
    \E k \in present : entry(k).exp = now

\* caller p takes a step of a Get or of a ForEach
ReadStep(p) ==
    /\ pc'[p] # pc[p]
    /\ \/ call[p].op \in {"Get", "ForEach"}
       \/ call'[p].op \in {"Get", "ForEach"}

C29_ForEachWitness ==
    \E p \in Procs :
        /\ pc[p] = "post"
        /\ call[p].op = "ForEach"
        /\ res[p].seen = <<>>
        /\ present # {}
        /\ len = 1

\* the keys a step removes from shard s
goneIn(s) == (DOMAIN items[s]) \ (DOMAIN items'[s])

\* the step in which the janitor's callback subtracts what the sweep removed
CountStep(s) == jpc[s] = "cb" /\ jpc'[s] # "cb"

\* C30: a sweep of a shard removes all and only the entries of the shard whose
\* expiration is set and has elapsed (elapsed >= d) at the instant of the
\* sweep, and leaves the others as they are; it removes no entry that never
\* expires and no entry Get would report found; and the counter is decremented
\* by exactly the number of entries the sweep removed.
C30_SweepExact ==
    [][\A s \in Shards :
          /\ SweepStep(s)
             => /\ goneIn(s) = {k \in DOMAIN items[s] : expiredAt(items[s][k].exp, now)}
                /\ \A k \in DOMAIN items'[s] : k \in DOMAIN items[s] /\ items'[s][k] = items[s][k]
                /\ \A k \in goneIn(s) : items[s][k].exp > 0 /\ ~get(items[s], k, now).ok
                /\ evicted'[s] = Cardinality(goneIn(s))
                /\ len' = len
          /\ CountStep(s) => len' = len - evicted[s]]_vars

\* The same with an entry taken for elapsed only once the clock is past its
\* expiration.
C30_SweepExactPastOnly ==
    [][\A s \in Shards :
          /\ SweepStep(s)
             => /\ goneIn(s) = {k \in DOMAIN items[s] : items[s][k].exp > 0 /\ items[s][k].exp < now}
                /\ \A k \in DOMAIN items'[s] : k \in DOMAIN items[s] /\ items'[s][k] = items[s][k]
                /\ \A k \in goneIn(s) : items[s][k].exp > 0 /\ ~get(items[s], k, now).ok
                /\ evicted'[s] = Cardinality(goneIn(s))
                /\ len' = len
          /\ CountStep(s) => len' = len - evicted[s]]_vars

\* A sweep has just removed one entry and left another, and the callback has
\* not yet run.
C30_SweptOne ==
    \E s \in Shards : jpc[s] = "cb" /\ evicted[s] = 1 /\ present # {}

\* the entry of key k has a TTL that has elapsed (an expiration before
\* MaxTime: the clock of the model stops there)
elapsedEntry(k) ==
    k \in present /\ expiredAt(entry(k).exp, now) /\ entry(k).exp < MaxTime

\* C31: expired entries are eventually reclaimed.  While the context is not
\* cancelled and the sweeper is scheduled fairly, every entry whose TTL has
\* elapsed is in the end deleted from its shard map or overwritten, whatever
\* the caller does in between.
C31_EventuallyReclaimed ==
    \A k \in Keys : elapsedEntry(k) ~> ~elapsedEntry(k)

\* An entry that had expired has been swept while the caller was inside a
\* call on the other shard.
C31_Witness ==
    \E s \in Shards :
        /\ jpc[s] = "cb"
        /\ evicted[s] > 0
        /\ pc["p1"] \in {"held", "write"}

\* the shards whose lock caller p holds, exclusive or shared
locksOf(p) == {s \in Shards : wlock[s] = p \/ p \in rlock[s]}

\* caller p is inside a call
inCall(p) == pc[p] # "idle"

\* some step of the thread that holds the exclusive lock of shard s, or of a
\* thread that holds its shared lock, can be taken
holderCanStep(s) ==
    /\ wlock[s] = "janitor" => ENABLED SweepBody(s)
    /\ \A p \in LockProcs :
           s \in locksOf(p)
           => ENABLED (\/ Lookup(p)
                       \/ \E a \in CallArgs(call[p].op) : Write(p, a.value, a.ttl, a.fn)
                       \/ ForEachIterate(p))

\* C32, the states: no caller holds the locks of two shards at once, the
\* janitor of a shard holds no lock but that shard's, and whoever holds a lock
\* can go on without waiting for another (no deadlock).
C32_OneLockAtATime ==
    /\ \A p \in Procs : Cardinality(locksOf(p)) <= 1
    /\ \A s \in Shards : wlock[s] = "janitor" <=> jpc[s] = "held"
    /\ \A s \in Shards : holderCanStep(s)

\* C32: no cross-shard locking and no deadlock.  No thread, caller or
\* janitor, ever holds the locks of two shards at once, no holder of a lock
\* waits for another lock, and every call returns in the end, whatever the
\* other callers and the janitors do.
C32_NoDeadlock ==
    /\ []C32_OneLockAtATime
    /\ \A p \in LockProcs : inCall(p) ~> ~inCall(p)

\* A ForEach waits between two shards, holding no lock, while the other
\* caller writes under the exclusive lock of the shard it is about to enter
\* and the janitor of the shard it has left sweeps.
C32_Witness ==
    /\ pc["p2"] = "next"
    /\ locksOf("p2") = {}
    /\ pc["p1"] = "write"
    /\ locksOf("p1") = {call["p2"].value}
    /\ \E s \in Shards : s # call["p2"].value /\ jpc[s] = "held"

\* the shard whose map caller p is reading or about to change, when it is
\* inside a shard method
shardIn(p) == IF call[p].op = "ForEach" THEN call[p].value ELSE getShard(call[p].key)

\* caller p is inside a shard method that reads the map only
readingIn(p) ==
    \/ pc[p] = "iter"
    \/ pc[p] = "held" /\ call[p].op \in ReadOps

\* caller p is inside a shard method that may change the map
writingIn(p) ==
    \/ pc[p] = "write"
    \/ pc[p] = "held" /\ call[p].op \notin ReadOps

\* Every thread inside a shard method holds that shard's lock, shared for a
\* reading method and exclusive for the others, and an exclusive lock is held
\* beside no other lock on the shard.
lockDiscipline ==
    /\ \A p \in Procs : readingIn(p) => p \in rlock[shardIn(p)]
    /\ \A p \in Procs : writingIn(p) => wlock[shardIn(p)] = p
    /\ \A s \in Shards : jpc[s] = "held" => wlock[s] = "janitor"
    /\ \A s \in Shards : wlock[s] # None => rlock[s] = {}
    /\ \A s \in Shards : \A p, q \in Procs :
           (writingIn(p) /\ shardIn(p) = s /\ q # p)
           => ~(readingIn(q) /\ shardIn(q) = s) /\ ~(writingIn(q) /\ shardIn(q) = s)
                /\ jpc[s] # "held"

\* C33: shard lock discipline.  Every step that inserts, overwrites or deletes
\* an entry of a shard's map is taken by the thread that holds that shard's
\* exclusive lock; every thread that reads the map holds at least its shared
\* lock; and a writer never holds a shard's lock at the same time as another
\* reader or writer of that shard.
C33_LockDiscipline ==
    /\ []lockDiscipline
    /\ [][\A s \in Shards :
              items'[s] # items[s]
              => /\ wlock[s] # None
                 /\ rlock[s] = {}
                 /\ \/ wlock[s] = "janitor" /\ SweepStep(s)
                    \/ \E p \in Procs : wlock[s] = p /\ pc[p] = "write" /\ pc'[p] = "post"]_vars

\* A Get and a ForEach read the same shard at once under its shared lock,
\* while the janitor of the other shard holds that one's exclusive lock.
C33_Witness ==
    \E s \in Shards :
        /\ rlock[s] = {"p1", "p2"}
        /\ pc["p1"] = "held"
        /\ pc["p2"] = "iter"
        /\ \E r \in Shards : r # s /\ wlock[r] = "janitor"

\* A Set is about to overwrite an entry under the exclusive lock of the shard
\* the ForEach has just left.
C33_WriterAlone ==
    /\ pc["p1"] = "write"
    /\ call["p1"].key \in present
    /\ pc["p2"] = "next"
    /\ wlock[getShard(call["p1"].key)] = "p1"

\* the call fn made from the ForEach of p waits for the exclusive lock of the
\* shard that ForEach is iterating
reentered(p, f) ==
    /\ pc[p] = "iter"
    /\ pc[f] = "wait"
    /\ call[f].op \notin ReadOps
    /\ getShard(call[f].key) = call[p].value

\* C34: ForEach holds the iterated shard's shared lock across the whole
\* callback sequence.  A callback that calls a mutating operation on a key of
\* the shard being iterated never returns: the call waits for the lock for
\* ever and the ForEach with it.  And while the scan of a shard lasts, no
\* writer of another thread and no sweep enters that shard, and its map does
\* not change.
C34_ForEachHoldsLock ==
    /\ [](pc["p1"] = "iter"
          => /\ "p1" \in rlock[call["p1"].value]
             /\ wlock[call["p1"].value] = None
             /\ ~ENABLED SweepLock(call["p1"].value)
             /\ \A key \in Keys :
                    getShard(key) = call["p1"].value
                    => ~ENABLED Acquire("p2", "Set", key))
    /\ [][/\ reentered("p1", "p3")
             => reentered("p1", "p3")' /\ call'["p3"] = call["p3"] /\ call'["p1"] = call["p1"]
          /\ (pc["p1"] = "iter" /\ pc'["p1"] = "iter")
             => items'[call["p1"].value] = items[call["p1"].value]]_vars

\* The callback of a ForEach over shard 0 has called Remove on a key of that
\* shard and waits, while the other caller has returned from a Get on the
\* same shard.
C34_Witness ==
    /\ reentered("p1", "p3")
    /\ call["p3"].op = "Remove"
    /\ pc["p2"] = "post"
    /\ call["p2"].op = "Get"
    /\ getShard(call["p2"].key) = call["p1"].value
    /\ res["p2"].ok

\* The callback of a ForEach has overwritten an entry of the other shard and
\* returned to the scan.
C34_OtherShard ==
    /\ pc["p1"] = "iter"
    /\ pc["p3"] = "post"
    /\ call["p3"].op = "Set"
    /\ getShard(call["p3"].key) # call["p1"].value

\* the step in which the effector of caller p's Transform panics
PanicStep(p) == pc[p] = "write" /\ pc'[p] = "panicked"

\* C35: a panic inside the function passed to Transform does not corrupt the
\* shard.  The entry for the key keeps its value and expiration, Count() is
\* unchanged, and the shard's exclusive lock is released, so that later
\* operations on that shard proceed.
C35_TransformPanic ==
    /\ [](\A p \in Procs :
              pc[p] \in {"panicked", "idle"} => locksOf(p) = {})
    /\ [][\A p \in Procs :
              /\ PanicStep(p)
                 => /\ items' = items
                    /\ call[p].key \in present
                    /\ len' = len
                    /\ wlock'[getShard(call[p].key)] = None
                    /\ rlock'[getShard(call[p].key)] = {}
              /\ (pc[p] = "panicked" /\ pc'[p] = "idle")
                 => /\ items' = items
                    /\ len' = len
                    /\ UNCHANGED <<wlock, rlock>>]_vars

\* The effector of a Transform on an entry with a TTL that has not run out
\* has panicked: the entry is in the map, the lock of its shard is free.
C35_Witness ==
    \E p \in Procs :
        /\ pc[p] = "panicked"
        /\ call[p].key \in present
        /\ entry(call[p].key).exp > now
        /\ wlock[getShard(call[p].key)] = None
        /\ len = 1

\* C36: Set and SetTtl write unconditionally.  Whatever the prior state of k
\* (absent, live, or expired and not yet swept), Set(k, v) and
\* SetTtl(k, v, ttl) leave the entry of k holding v, never expiring when
\* ttl <= 0 (and after Set) and expiring at now + ttl when ttl > 0; Count() is
\* incremented by exactly 1 if k had no entry in its shard map and is
\* unchanged otherwise, an overwritten entry that had expired included.
C36_SetUnconditional ==
    [][\A p \in Procs :
          /\ (LookupStep(p) /\ call[p].op \in SetOps)
             => pc'[p] = "write" /\ items' = items /\ len' = len
          /\ (WriteStep(p) /\ call[p].op \in SetOps)
             => /\ items'[getShard(call[p].key)] =
                       store(shardMap(call[p].key), call[p].key,
                             item(call'[p].value,
                                  IF call[p].op = "SetTtl" /\ call'[p].ttl > 0
                                  THEN now + call'[p].ttl
                                  ELSE NoExpiration))
                /\ res'[p].ok <=> call[p].key \notin present
                /\ len' = len
          /\ (FinishStep(p) /\ call[p].op \in SetOps)
             => /\ len' = len + (IF res[p].ok THEN 1 ELSE 0)
                /\ items' = items]_vars

\* A Set or SetTtl is about to overwrite an entry that has expired and has not
\* been swept.
C36_OverExpired ==
    \E p \in Procs :
        /\ pc[p] = "write"
        /\ call[p].op \in SetOps
        /\ call[p].key \in present
        /\ entry(call[p].key).exp > 0
        /\ now > entry(call[p].key).exp

\* A SetTtl with ttl > 0 has overwritten the entry of its key and holds the
\* shard no more: the key was there (not added), the entry holds the new
\* value and the expiration now + ttl, and Count() is still 1.
C36_Witness ==
    \E p \in Procs :
        /\ pc[p] = "post"
        /\ call[p].op = "SetTtl"
        /\ call[p].ttl > 0
        /\ ~res[p].ok
        /\ now = MaxTime
        /\ entry(call[p].key) = item(call[p].value, now + call[p].ttl)
        /\ len = 1

\* the hash values the mask is tried on
MaxHash == 15

\* the shards of the cache that was built: the indices of c.shards
madeShards == DOMAIN items

\* C37: routing is stable and in range.  For every shard count n >= 1 and
\* every hash value the index hash & mask lies in [0, n); every keyed call
\* takes a shard that was made; two calls with the same key, whenever they are
\* made in the life of the cache, take the same shard; and the shard count the
\* mask was made from does not change once the cache is built.
C37_RoutingStable ==
    /\ [](/\ \A n \in 1 .. MaxShards, h \in 0 .. MaxHash :
                BitAnd(h, maskOf(n)) \in 0 .. (n - 1)
          /\ \A p \in Procs :
                call[p].op = "getShard" => call[p].value \in madeShards
          /\ \A p, q \in Procs :
                (/\ call[p].op = "getShard"
                 /\ call[q].op = "getShard"
                 /\ call[p].key = call[q].key)
                => call[p].value = call[q].value)
    /\ [][pc["p1"] = "done"
          => /\ call'["p1"] = call["p1"]
             /\ DOMAIN items' = madeShards
             /\ \A p \in Procs :
                   (call'[p].op = "getShard" /\ call[p].op # "getShard")
                   => call'[p].value = shardOf(call'[p].key, Cardinality(madeShards))]_vars

\* In a cache of three shards two calls with the key of hash 6 have both taken
\* the last shard, and the clock has moved on since the cache was built.
C37_Witness ==
    /\ Cardinality(madeShards) = 3
    /\ call["p2"].op = "getShard"
    /\ call["p3"].op = "getShard"
    /\ call["p2"].key = "a"
    /\ call["p3"].key = "a"
    /\ call["p2"].value = 2
    /\ call["p3"].value = 2
    /\ now > 1

\* C38: Count() is never negative.  In every reachable state, under any
\* interleaving of Set and SetNx (the entry is stored, then the counter is
\* incremented) with Remove, GetAndRemove and the sweeps (the entry is
\* deleted, then the counter is decremented) on the same key, the value
\* Count() returns is >= 0.
C38_CountNonNegative == len >= 0

\* The counter is below zero while a call that has stored a new entry has yet
\* to increment it, and not otherwise: once every call has returned and every
\* sweep has reported, the counter is not negative.
C38_OnlyInFlight ==
    len < 0 => \E p \in Procs : pc[p] = "post" /\ lenDelta(call[p].op, res[p].ok) > 0

\* The counter is below zero: the entry a caller has stored is gone again,
\* and counted out, before the caller has counted it in.
C38_BelowZero ==
    /\ len < 0
    /\ present = {}
    /\ \E p \in Procs : pc[p] = "post" /\ call[p].op \in SetOps /\ res[p].ok

====
